---- MODULE Spec2Model ----
(***************************************************************************)
(* A model of MRPA.py: the recommendation-and-enrichment pipeline          *)
(* (generate_recommendations, fetch_imdb_info, NetworkWorker.run) and the  *)
(* MainWindow handlers that start fetches and consume their results.       *)
(*                                                                         *)
(* Text is a sequence of one-character strings.  Three characters that    *)
(* cannot be written in an ASCII module are named: LF is the line feed,    *)
(* NBSP is U+00A0 and BULLET is U+2022.                                    *)
(***************************************************************************)
EXTENDS Integers, Sequences, FiniteSets, TLC

LF == "LF"
NBSP == "NBSP"
BULLET == "BULLET"
\* the double quote
DQ == "DQ"

(***************************************************************************)
(* Bounds of the model.                                                    *)
(***************************************************************************)
\* lines of a generated response text, in the parsing specification
MaxLines == 3
\* largest suggestion count the parsing specification tries
MaxParseCount == 2

(***************************************************************************)
(* Python string primitives, as the code uses them.                        *)
(***************************************************************************)
\* str.isspace() for the characters of the model: U+00A0 is whitespace
IsSpace(c) == c \in {" ", NBSP, LF}

Min(a, b) == IF a < b THEN a ELSE b
Max(a, b) == IF a > b THEN a ELSE b

Range(s) == {s[i] : i \in DOMAIN s}

\* s[n:]
Drop(s, n) == IF n >= Len(s) THEN <<>> ELSE SubSeq(s, n + 1, Len(s))

\* s[:n]
Take(s, n) == IF n >= Len(s) THEN s ELSE SubSeq(s, 1, n)

\* str.startswith
StartsWith(s, p) == Len(p) <= Len(s) /\ SubSeq(s, 1, Len(p)) = p

RECURSIVE LStrip(_)
LStrip(s) == IF s # <<>> /\ IsSpace(Head(s)) THEN LStrip(Tail(s)) ELSE s

RECURSIVE RStrip(_)
RStrip(s) ==
    IF s # <<>> /\ IsSpace(s[Len(s)]) THEN RStrip(SubSeq(s, 1, Len(s) - 1)) ELSE s

\* str.strip()
Strip(s) == RStrip(LStrip(s))

\* str.replace(a, b) for one-character a; b is a text
RECURSIVE Replace(_, _, _)
Replace(s, a, b) ==
    IF s = <<>> THEN <<>>
    ELSE (IF Head(s) = a THEN b ELSE <<Head(s)>>) \o Replace(Tail(s), a, b)

\* str.splitlines() on LF: no trailing empty line
RECURSIVE SplitLinesFrom(_, _)
SplitLinesFrom(s, cur) ==
    IF s = <<>> THEN (IF cur = <<>> THEN <<>> ELSE <<cur>>)
    ELSE IF Head(s) = LF THEN <<cur>> \o SplitLinesFrom(Tail(s), <<>>)
    ELSE SplitLinesFrom(Tail(s), Append(cur, Head(s)))

SplitLines(s) == SplitLinesFrom(s, <<>>)

\* str(i) for 0 <= i <= 99
Digit(d) == CASE d = 0 -> "0" [] d = 1 -> "1" [] d = 2 -> "2" [] d = 3 -> "3"
              [] d = 4 -> "4" [] d = 5 -> "5" [] d = 6 -> "6" [] d = 7 -> "7"
              [] d = 8 -> "8" [] d = 9 -> "9"

Str(i) == IF i < 10 THEN <<Digit(i)>> ELSE <<Digit(i \div 10), Digit(i % 10)>>

(***************************************************************************)
(* generate_recommendations: the parsing of the response text.             *)
(***************************************************************************)
\* a slip: the markers 1. to 10., whatever the count
SeparatorsUpToTen(count) ==
    [i \in 1..10 |-> Str(i) \o <<".">>] \o << <<"-">>, <<BULLET>>, <<"*">> >>

\* [f"{i}." for i in range(1, count + 1)] + ['-', BULLET, '*']
Separators(count) ==
    [i \in 1..count |-> Str(i) \o <<".">>] \o << <<"-">>, <<BULLET>>, <<"*">> >>

\* the lines of the response: stripped, blank ones dropped
RECURSIVE NonBlankLines(_)
NonBlankLines(ls) ==
    IF ls = <<>> THEN <<>>
    ELSE (IF Strip(Head(ls)) # <<>> THEN <<Strip(Head(ls))>> ELSE <<>>)
            \o NonBlankLines(Tail(ls))

\* a slip: markers are cut off for as long as the line starts with one
RECURSIVE StripEveryMarkerFrom(_, _, _)
StripEveryMarkerFrom(l, seps, k) ==
    IF k > Len(seps) THEN l
    ELSE IF StartsWith(Strip(l), seps[k])
         THEN StripEveryMarkerFrom(Strip(Drop(l, Len(seps[k]))), seps, 1)
    ELSE StripEveryMarkerFrom(l, seps, k + 1)

\* the inner for loop: the first separator the line starts with is cut off
RECURSIVE StripMarkerFrom(_, _, _)
StripMarkerFrom(l, seps, k) ==
    IF k > Len(seps) THEN l
    ELSE IF StartsWith(Strip(l), seps[k]) THEN Strip(Drop(l, Len(seps[k])))
    ELSE StripMarkerFrom(l, seps, k + 1)

StripMarker(l, count) == StripMarkerFrom(l, Separators(count), 1)

\* a slip: the non-breaking spaces are left in the title
CleanTitleKeepingNbsp(l, count) == Strip(StripMarker(l, count))

CleanTitle(l, count) == Strip(Replace(Strip(StripMarker(l, count)), NBSP, <<" ">>))

\* the outer for loop, with its break once count titles are collected
RECURSIVE CollectTitles(_, _, _)
CollectTitles(ls, count, titles) ==
    IF ls = <<>> THEN titles
    ELSE LET c == CleanTitle(Head(ls), count) IN
         IF c = <<>> THEN CollectTitles(Tail(ls), count, titles)
         ELSE IF Len(titles) + 1 >= count THEN Append(titles, c)
         ELSE CollectTitles(Tail(ls), count, Append(titles, c))

ErrEmptyResult == "No titles parsed from Gemini response."

\* a slip: an empty list is returned instead of the RuntimeError
ParseTitlesWithoutRaise(raw, count) ==
    [ok |-> TRUE, err |-> "",
     titles |-> CollectTitles(NonBlankLines(SplitLines(raw)), count, <<>>)]

\* lines 512-532: the titles, or the RuntimeError raised when there are none
ParseTitles(raw, count) ==
    LET titles == CollectTitles(NonBlankLines(SplitLines(raw)), count, <<>>) IN
    IF titles = <<>> THEN [ok |-> FALSE, titles |-> <<>>, err |-> ErrEmptyResult]
    ELSE [ok |-> TRUE, titles |-> titles, err |-> ""]

(***************************************************************************)
(* State.  raw, pcount, parsed and plines belong to the specification of   *)
(* the parser alone: a response text, the suggestion count it is parsed    *)
(* under, the outcome of generate_recommendations on it, and the lines the *)
(* text was written from.                                                  *)
(***************************************************************************)
VARIABLES raw, pcount, parsed, plines

pvars == <<raw, pcount, parsed, plines>>

(***************************************************************************)
(* ftitle, fresp and fetched belong to the specification of                *)
(* fetch_imdb_info alone: a title, what the OMDb request would come back   *)
(* with, and what the function returned.                                   *)
(***************************************************************************)
VARIABLES ftitle, fresp, fetched

fvars == <<ftitle, fresp, fetched>>

(***************************************************************************)
(* The files of the working directory and the loading of the module:       *)
(* GLOBAL_CWD (TRUE once the directory is established), the two key files  *)
(* and config.json, and loaded (the module has run its start-up code and   *)
(* the window is built).                                                   *)
(***************************************************************************)
VARIABLES GLOBAL_CWD, gemini_file, omdb_file, config_file, loaded

lvars == <<GLOBAL_CWD, gemini_file, omdb_file, config_file, loaded>>

(***************************************************************************)
(* backend belongs to the specification of repeated fetches alone: the     *)
(* answers of a backend that gives the same response to the same request.  *)
(***************************************************************************)
VARIABLES backend

\* the variables the worker and the window handlers other than save_keys
\* leave alone
uvars == <<pvars, fvars, lvars, backend>>

(***************************************************************************)
(* The module globals, the MainWindow, the lists it has owned (heap: one   *)
(* excluded_ids list per start_search, the last one being the window's     *)
(* current list), the NetworkWorker objects in creation order, and the     *)
(* signals queued to the main thread.                                      *)
(***************************************************************************)
VARIABLES GEMINI_API_KEY, OMDB_API_KEY, GLOBAL_SUGGESTION_COUNT,
          api_keys_ok, search_active, is_show, last_query, last_search_type,
          more_button, cards, settings, ops, heap, workers, events

gvars == <<GEMINI_API_KEY, OMDB_API_KEY, GLOBAL_SUGGESTION_COUNT>>

wvars == <<api_keys_ok, search_active, is_show, last_query, last_search_type,
           more_button, cards, settings, ops, heap>>

svars == <<gvars, wvars, workers, events>>

vars == <<uvars, svars>>

\* the application, untouched: the parser is checked on its own
SystemIdle ==
    /\ GEMINI_API_KEY = <<"k">> /\ OMDB_API_KEY = <<"k">>
    /\ GLOBAL_SUGGESTION_COUNT = 10
    /\ api_keys_ok = TRUE /\ search_active = FALSE /\ is_show = FALSE
    /\ last_query = <<>> /\ last_search_type = "movie"
    /\ more_button = FALSE /\ cards = <<>> /\ settings = "closed" /\ ops = 0
    /\ heap = << <<>> >> /\ workers = <<>> /\ events = <<>>

(***************************************************************************)
(* Response texts for the parser.  A line is a list marker followed by a   *)
(* body; every body comes with its cleaned text written out by hand.       *)
(***************************************************************************)
Bodies ==
    { [text |-> <<NBSP>>,                 clean |-> <<>>],
      [text |-> <<" ", "A", NBSP>>,       clean |-> <<"A">>],
      [text |-> <<"B", NBSP, "C">>,       clean |-> <<"B", " ", "C">>],
      [text |-> <<" ", "-", "A">>,        clean |-> <<"-", "A">>],
      [text |-> <<"1", ".", "A">>,        clean |-> <<"1", ".", "A">>] }

Bullets == { <<"-">>, <<BULLET>>, <<"*">> }

NumericMarkers(n) == { Str(k) \o <<".">> : k \in 1..n }

\* a body that itself starts like a marker makes a line with a marker
LooksMarked(text, count) ==
    \E m \in NumericMarkers(count) \cup Bullets : StartsWith(Strip(text), m)

LineShapes(n, count) ==
    { [marker |-> m, body |-> b] :
        m \in {<<>>} \cup NumericMarkers(Min(n, count)) \cup Bullets, b \in Bodies }
    \ { l \in [marker : {<<>>}, body : Bodies] : LooksMarked(l.body.text, count) }

RenderLine(l) == l.marker \o l.body.text

RECURSIVE RenderLines(_)
RenderLines(ls) ==
    IF ls = <<>> THEN <<>>
    ELSE RenderLine(Head(ls)) \o <<LF>> \o RenderLines(Tail(ls))

\* a working directory with both keys and no config.json, loaded
FilesIdle ==
    /\ GLOBAL_CWD = TRUE /\ loaded = TRUE
    /\ gemini_file = <<"k">> /\ omdb_file = <<"k">>
    /\ config_file = [exists |-> FALSE, kind |-> "absent", suggestion_count |-> 0]

\* fetch_imdb_info, untouched, and no backend fixed
FetchIdle ==
    /\ ftitle = <<>> /\ fresp = [kind |-> "notfound", imdbID |-> <<>>]
    /\ fetched = [done |-> FALSE]
    /\ backend = <<>>

InitParse ==
    /\ SystemIdle /\ FetchIdle /\ FilesIdle
    /\ pcount \in 1..MaxParseCount
    /\ \E n \in 0..MaxLines : plines \in [1..n -> LineShapes(n, pcount)]
    /\ raw = RenderLines(plines)
    /\ parsed = [done |-> FALSE]

\* generate_recommendations from the response text on (lines 512-532)
ParseResponse ==
    /\ ~parsed.done
    /\ parsed' = [done |-> TRUE] @@ ParseTitles(raw, pcount)
    /\ UNCHANGED <<raw, pcount, plines, fvars, lvars, backend, svars>>

NextParse == ParseResponse

SpecParse == InitParse /\ [][NextParse]_vars

(***************************************************************************)
(* C9, C10: what the parser returns.                                       *)
(***************************************************************************)
RECURSIVE CleanOfEach(_)
CleanOfEach(ls) ==
    IF ls = <<>> THEN <<>> ELSE <<Head(ls).body.clean>> \o CleanOfEach(Tail(ls))

RECURSIVE NonEmptyOnes(_)
NonEmptyOnes(ts) ==
    IF ts = <<>> THEN <<>>
    ELSE (IF Head(ts) = <<>> THEN <<>> ELSE <<Head(ts)>>) \o NonEmptyOnes(Tail(ts))

AllLinesNonBlank == \A i \in DOMAIN plines : Strip(RenderLine(plines[i])) # <<>>

\* C9 as stated: a text of non-blank lines, each with a numeric marker, a
\* bullet or no marker, parses to the cleaned text of each line, in order, cut
\* to the first pcount titles (stated for the texts that yield a list at all).
C9_EachLineYieldsItsCleanedText ==
    (parsed.done /\ parsed.ok /\ AllLinesNonBlank)
        => parsed.titles = Take(CleanOfEach(plines), pcount)

\* C9 amended: the titles are the non-empty cleaned texts of the lines, in
\* order, cut to the first pcount of them; a line whose cleaned text is empty
\* gives no title.
C9_NonEmptyCleanedTextsInOrder ==
    parsed.done => parsed.titles = Take(NonEmptyOnes(CleanOfEach(plines)), pcount)

\* a marker was cut, a non-breaking space was turned into a space, and a later
\* title was cut off by the count
C9_Witness ==
    /\ parsed.done /\ parsed.ok
    /\ Len(plines) > pcount
    /\ \E i \in DOMAIN plines : plines[i].marker # <<>> /\ plines[i].body.clean # <<>>
    /\ Len(NonEmptyOnes(CleanOfEach(plines))) > Len(parsed.titles)
    /\ \E i \in DOMAIN parsed.titles : " " \in Range(parsed.titles[i])

\* C10: a text whose lines are all blank or all empty once the marker is cut
\* makes generate_recommendations raise the empty-result error; it returns
\* neither an empty list nor a list with an empty title.
C10_NoTitlesRaisesEmptyResult ==
    parsed.done =>
        /\ (\A i \in DOMAIN plines : plines[i].body.clean = <<>>)
              => (~parsed.ok /\ parsed.err = ErrEmptyResult)
        /\ parsed.ok => (parsed.titles # <<>> /\ \A i \in DOMAIN parsed.titles :
                                                    parsed.titles[i] # <<>>)

C10_Witness ==
    /\ parsed.done /\ ~parsed.ok
    /\ \E i \in DOMAIN plines : plines[i].marker # <<>>
    /\ \E i \in DOMAIN plines : plines[i].marker = <<>>


(***************************************************************************)
(* Bounds of the application model.                                        *)
(***************************************************************************)
\* what the user does in one behaviour: searches, quick filters, generate
\* more, back, mode toggles and openings of the settings panel
MaxOps == 3
\* fetches running or waiting to be handled at one time
MaxInFlight == 2
\* largest suggestion count the settings panel is given
MaxCount == 1

(***************************************************************************)
(* Module globals and their loading.                                       *)
(***************************************************************************)
\* Python's None where a text could stand: no text equals it, since a text is
\* made of single characters
MISSING_API_KEY == <<"None">>

NoFile == <<"NoFile">>

\* a file that is there and whose reading raises
Unreadable == <<"Unreadable">>

\* _read_key_content: "" for a missing file and for one that cannot be read,
\* else the stripped content
ReadKeyContent(file) == IF file \in {NoFile, Unreadable} THEN <<>> ELSE Strip(file)

\* a slip: the content is taken even when it is empty
LoadKeyKeepingEmpty(file) == ReadKeyContent(file)

\* _setup_cwd_and_load_keys, lines 150-155: content or MISSING_API_KEY
LoadKey(file) ==
    IF ReadKeyContent(file) = <<>> THEN MISSING_API_KEY ELSE ReadKeyContent(file)

\* _save_key_content writes key_content.strip(); the key is then loaded from it
SavedKey(input) == LoadKey(Strip(input))

DefaultSuggestionCount == 10
MinSuggestionCount == 1
MaxSuggestionCount == 20

\* a slip: the stored count is taken as it is
LoadConfigUnclamped(current, config) ==
    IF ~config.exists \/ config.kind \in {"invalid", "text"} THEN current
    ELSE IF config.kind = "missing" THEN DefaultSuggestionCount
    ELSE config.suggestion_count

\* _load_config: the count is left alone when config.json does not exist, is
\* no JSON ("invalid") or holds a suggestion_count that int() refuses
\* ("text"): the exception is caught; a file without the field ("missing")
\* gives the default
LoadConfig(current, config) ==
    IF ~config.exists \/ config.kind \in {"invalid", "text"} THEN current
    ELSE Max(MinSuggestionCount, Min(MaxSuggestionCount,
                IF config.kind = "missing" THEN DefaultSuggestionCount
                ELSE config.suggestion_count))

\* config.json as save_keys writes it, with the value of the count_input
SavedConfig(count_input) ==
    [exists |-> TRUE, kind |-> "number", suggestion_count |-> count_input]

\* MainWindow._check_api_keys: api_keys_ok = not missing
CheckApiKeys(gemini, omdb) == gemini # MISSING_API_KEY /\ omdb # MISSING_API_KEY

(***************************************************************************)
(* The two backends, as the pipeline sees them.                            *)
(***************************************************************************)
\* what the Gemini request can come back with: a failed request, an envelope
\* without the expected shape (its JSON text), or an envelope with a text
GeminiResponses ==
    { [kind |-> "timeout",   text |-> <<>>],
      [kind |-> "transport", text |-> <<>>],
      [kind |-> "text", text |-> <<"1", ".", " ", "A", LF, "2", ".", "B", NBSP, "C", LF>>],
      [kind |-> "text", text |-> <<"A", LF, "-", " ", "A">>],
      [kind |-> "text", text |-> <<"-", LF, " ", LF>>] }

BackendIds == { <<"x">>, <<"y">> }

\* what the OMDb request can come back with: a failed request, Response
\* "False", or a record with its imdbID (empty when the field is missing)
OmdbResponses ==
    { [kind |-> "timeout",  imdbID |-> <<>>],
      [kind |-> "notfound", imdbID |-> <<>>] }
    \cup { [kind |-> "found", imdbID |-> id] : id \in BackendIds \cup { <<>> } }

ErrKeyNotConfigured == "Gemini API Key is not configured. Cannot make API call."
ErrKeyMissing == "Gemini API Key is missing. Cannot generate recommendations."

\* a slip: the request is sent without looking at the key
DirectGeminiApiCallUnchecked(key, resp) ==
    IF resp.kind \in {"timeout", "transport"}
    THEN [ok |-> FALSE, text |-> <<>>, err |-> resp.kind, sent |-> TRUE]
    ELSE [ok |-> TRUE, text |-> resp.text, err |-> "", sent |-> TRUE]

\* json.dumps(data) for the envelopes of the model that carry no text:
\* {} ("empty"), {"candidates": []} ("nocandidates") and {"candidates": null}
\* ("nullcandidates")
JsonDumps(resp) ==
    CASE resp.kind = "empty" -> <<"{", "}">>
      [] resp.kind = "nocandidates" ->
            <<"{", DQ, "c", "a", "n", "d", "i", "d", "a", "t", "e", "s", DQ, ":", " ",
              "[", "]", "}">>
      [] resp.kind = "nullcandidates" ->
            <<"{", DQ, "c", "a", "n", "d", "i", "d", "a", "t", "e", "s", DQ, ":", " ",
              "n", "u", "l", "l", "}">>

\* direct_gemini_api_call: the text handed to the parser, or the exception.
\* Lines 487-490: data['candidates'][0]['content']['parts'][0]['text'], with
\* json.dumps(data) for a KeyError or an IndexError; subscripting a null
\* raises a TypeError, which is not caught there
DirectGeminiApiCall(key, resp) ==
    IF key = MISSING_API_KEY THEN [ok |-> FALSE, text |-> <<>>, err |-> ErrKeyNotConfigured, sent |-> FALSE]
    ELSE IF resp.kind \in {"timeout", "transport"}
         THEN [ok |-> FALSE, text |-> <<>>, err |-> resp.kind, sent |-> TRUE]
    ELSE IF resp.kind = "text"
         THEN [ok |-> TRUE, text |-> resp.text, err |-> "", sent |-> TRUE]
    ELSE IF resp.kind \in {"empty", "nocandidates"}
         THEN [ok |-> TRUE, text |-> JsonDumps(resp), err |-> "", sent |-> TRUE]
    ELSE [ok |-> FALSE, text |-> <<>>, err |-> "TypeError", sent |-> TRUE]

\* a slip: a failed call is swallowed and no titles are returned
GenerateSwallowingFailure(call, count) ==
    IF ~call.ok THEN [ok |-> TRUE, titles |-> <<>>, err |-> ""]
    ELSE ParseTitles(call.text, count)

\* generate_recommendations from line 511 on: a failed call is raised again,
\* a text is parsed
GenerateFromCall(call, count) ==
    IF ~call.ok THEN [ok |-> FALSE, titles |-> <<>>, err |-> call.err]
    ELSE ParseTitles(call.text, count)

GenresKeyMissing == "API Key Missing"
PlotKeyMissing == "OMDB API Key is missing, unable to fetch movie metadata."

\* lines 540-550: the record made up when there is no OMDb key; real tells it
\* from a record of the backend, "None" is Python's None for the cover
DegradedInfo(title) ==
    [title |-> title, real |-> FALSE, imdb_id |-> Replace(title, " ", <<>>),
     genres |-> GenresKeyMissing, plot |-> PlotKeyMissing, cover_url |-> "None"]

\* lines 561-571: the record built from the data of the backend, of which the
\* model follows the imdbID
RealInfo(title, resp) ==
    [title |-> title, real |-> TRUE, imdb_id |-> resp.imdbID,
     genres |-> "Genre", plot |-> "Plot", cover_url |-> "Poster"]

\* stands where fetch_imdb_info returns None
NoInfo(title) ==
    [title |-> title, real |-> TRUE, imdb_id |-> <<>>,
     genres |-> "", plot |-> "", cover_url |-> "None"]

\* a slip: the degraded id is the title trimmed, its inner spaces kept
FetchImdbInfoTrimmingTitle(title, key, resp) ==
    IF key = MISSING_API_KEY
    THEN [ret |-> "info", sent |-> FALSE,
          info |-> [DegradedInfo(title) EXCEPT !.imdb_id = Strip(title)]]
    ELSE IF resp.kind = "found"
         THEN [ret |-> "info", sent |-> TRUE, info |-> RealInfo(title, resp)]
    ELSE [ret |-> "none", sent |-> TRUE, info |-> NoInfo(title)]

\* a slip: the request is made outside the try, and a failed one raises
FetchImdbInfoRaising(title, key, resp) ==
    IF key = MISSING_API_KEY
    THEN [ret |-> "info", sent |-> FALSE, info |-> DegradedInfo(title)]
    ELSE IF resp.kind = "found"
         THEN [ret |-> "info", sent |-> TRUE, info |-> RealInfo(title, resp)]
    ELSE [ret |-> IF resp.kind = "timeout" THEN "raise" ELSE "none", sent |-> TRUE,
          info |-> NoInfo(title)]

\* fetch_imdb_info: ret is "info" with the record, or "none"; it raises nothing
FetchImdbInfo(title, key, resp) ==
    IF key = MISSING_API_KEY
    THEN [ret |-> "info", sent |-> FALSE, info |-> DegradedInfo(title)]
    ELSE IF resp.kind = "found"
         THEN [ret |-> "info", sent |-> TRUE, info |-> RealInfo(title, resp)]
    ELSE [ret |-> "none", sent |-> TRUE, info |-> NoInfo(title)]

\* a slip: a record is kept without a look at its id
KeepInfoWithoutId(got, excluded) ==
    got.ret = "info" /\ got.info.imdb_id \notin Range(excluded)

\* a slip: the test against excluded_ids is left out
KeepInfoIgnoringExcluded(got, excluded) ==
    got.ret = "info" /\ got.info.imdb_id # <<>>

\* line 446: info and info.get('imdb_id') and the id not in self.excluded_ids
KeepInfo(got, excluded) ==
    got.ret = "info" /\ got.info.imdb_id # <<>> /\ got.info.imdb_id \notin Range(excluded)

(***************************************************************************)
(* NetworkWorker.                                                          *)
(***************************************************************************)
\* the window's current excluded_ids list
CurrentList == heap[Len(heap)]

\* __init__: excluded_ids or [] keeps the caller's list object (excluded_ref
\* is its place in heap) unless it is empty; excl_ref names the shared list
\* (0: a list of the worker's own).
\* The fields from handler on record the run for the properties: who made the
\* request, the search it belongs to, the list as passed in, the suggestion
\* count when it was made, the HTTP requests sent, what came of the generator
\* ("none": not called, "credential": no key, else the kind of the response)
\* and whether a resolver request came back without a record
NewWorker(query_text, search_type, titles, excluded_ids, excluded_ref, handler) ==
    [pc |-> "begin", query_text |-> query_text, search_type |-> search_type,
     pre_defined_titles |-> titles,
     excl_ref |-> IF excluded_ids = <<>> THEN 0 ELSE excluded_ref,
     excl_own |-> <<>>,
     count |-> 0, titles |-> <<>>, i |-> 1, results |-> <<>>,
     handler |-> handler, session |-> excluded_ref, started |-> excluded_ids,
     max_results |-> GLOBAL_SUGGESTION_COUNT,
     gemini_requests |-> 0, omdb_requests |-> 0, gen |-> "none", lost |-> FALSE]

\* self.excluded_ids as the worker reads it now
Excluded(w) == IF w.excl_ref = 0 THEN w.excl_own ELSE heap[w.excl_ref]

Done == [pc |-> "done"]

Running == { k \in DOMAIN workers : workers[k].pc # "done" }

EmitError(k, w, msg) ==
    /\ events' = Append(events, [sig |-> "error", results |-> <<>>, msg |-> msg, run |-> w])
    /\ workers' = [workers EXCEPT ![k] = Done]

\* a slip: the pre-supplied titles are not looked at
RunBeginAlwaysGenerating(k) ==
    LET w == workers[k] IN
    /\ w.pc = "begin"
    /\ IF GEMINI_API_KEY = MISSING_API_KEY
       THEN EmitError(k, [w EXCEPT !.gen = "credential"], ErrKeyMissing)
       ELSE /\ workers' = [workers EXCEPT ![k] =
                              [w EXCEPT !.pc = "gemini", !.count = GLOBAL_SUGGESTION_COUNT]]
            /\ UNCHANGED events
    /\ UNCHANGED <<uvars, gvars, wvars>>

\* run, lines 436-440 and generate_recommendations up to line 498
RunBegin(k) ==
    LET w == workers[k] IN
    /\ w.pc = "begin"
    /\ IF w.pre_defined_titles # <<>>
       THEN /\ workers' = [workers EXCEPT ![k] =
                              [w EXCEPT !.pc = "loop", !.titles = w.pre_defined_titles]]
            /\ UNCHANGED events
       ELSE IF GEMINI_API_KEY = MISSING_API_KEY
       THEN EmitError(k, [w EXCEPT !.gen = "credential"], ErrKeyMissing)
       ELSE /\ workers' = [workers EXCEPT ![k] =
                              [w EXCEPT !.pc = "gemini", !.count = GLOBAL_SUGGESTION_COUNT]]
            /\ UNCHANGED events
    /\ UNCHANGED <<uvars, gvars, wvars>>

\* a slip: a request that failed is sent again
GeminiCallRetrying(k, resp) ==
    LET w == workers[k]
        call == DirectGeminiApiCall(GEMINI_API_KEY, resp)
        res == GenerateFromCall(call, w.count)
        sent == IF call.sent THEN 1 ELSE 0
        came == IF GEMINI_API_KEY = MISSING_API_KEY THEN "credential" ELSE resp.kind
    IN
    /\ w.pc = "gemini"
    /\ IF res.ok
       THEN /\ workers' = [workers EXCEPT ![k] =
                              [w EXCEPT !.pc = "loop", !.titles = res.titles,
                                        !.gemini_requests = @ + sent, !.gen = came]]
            /\ UNCHANGED events
       ELSE IF came = "timeout" /\ w.gemini_requests = 0
       THEN /\ workers' = [workers EXCEPT ![k] = [w EXCEPT !.gemini_requests = @ + sent]]
            /\ UNCHANGED events
       ELSE EmitError(k, [w EXCEPT !.gemini_requests = @ + sent, !.gen = came], res.err)
    /\ UNCHANGED <<uvars, gvars, wvars>>

\* direct_gemini_api_call and the parsing of its text, lines 511-534
GeminiCall(k, resp) ==
    LET w == workers[k]
        call == DirectGeminiApiCall(GEMINI_API_KEY, resp)
        res == GenerateFromCall(call, w.count)
        sent == IF call.sent THEN 1 ELSE 0
        came == IF GEMINI_API_KEY = MISSING_API_KEY THEN "credential" ELSE resp.kind
    IN
    /\ w.pc = "gemini"
    /\ IF res.ok
       THEN /\ workers' = [workers EXCEPT ![k] =
                              [w EXCEPT !.pc = "loop", !.titles = res.titles,
                                        !.gemini_requests = @ + sent, !.gen = came]]
            /\ UNCHANGED events
       ELSE EmitError(k, [w EXCEPT !.gemini_requests = @ + sent, !.gen = came], res.err)
    /\ UNCHANGED <<uvars, gvars, wvars>>

\* a slip: the record is put in front
PrependResult(results, got, src) == <<got.info @@ [src |-> src]>> \o results

\* line 447: results.append(info); src is the place of its title in titles
AppendResult(results, got, src) == Append(results, got.info @@ [src |-> src])

\* a slip: a kept id is put on self.excluded_ids, to keep repeats off the page
ExcludedRecordingKept(excluded, got) ==
    IF KeepInfo(got, excluded) THEN Append(excluded, got.info.imdb_id) ELSE excluded

\* self.excluded_ids after a turn of the loop: line 446 only reads it
ExcludedAfterTurn(excluded, got) == excluded

\* lines 445-447, one turn of the loop: info = fetch_imdb_info(t), then the
\* test against self.excluded_ids as it is now
ResolveTitle(k, resp) ==
    LET w == workers[k]
        got == FetchImdbInfo(w.titles[w.i], OMDB_API_KEY, resp)
    IN
    /\ w.pc = "loop" /\ w.i <= Len(w.titles)
    /\ IF got.ret = "raise"
       THEN EmitError(k, w, resp.kind) /\ UNCHANGED heap
       ELSE LET after == ExcludedAfterTurn(Excluded(w), got) IN
            /\ workers' = [workers EXCEPT ![k] =
                  [w EXCEPT !.i = @ + 1,
                            !.omdb_requests = @ + (IF got.sent THEN 1 ELSE 0),
                            !.lost = @ \/ (got.sent /\ resp.kind # "found"),
                            !.excl_own = IF w.excl_ref = 0 THEN after ELSE @,
                            !.results = IF KeepInfo(got, Excluded(w))
                                        THEN AppendResult(@, got, w.i) ELSE @]]
            /\ heap' = IF w.excl_ref = 0 THEN heap
                       ELSE [heap EXCEPT ![w.excl_ref] = after]
            /\ UNCHANGED events
    /\ UNCHANGED <<uvars, gvars, api_keys_ok, search_active, is_show, last_query,
                   last_search_type, more_button, cards, settings, ops>>

\* a slip: the except clause is reached after finished was emitted
EmitFinishedAndError(k) ==
    LET w == workers[k] IN
    /\ w.pc = "loop" /\ w.i > Len(w.titles)
    /\ events' = events \o
          << [sig |-> "finished", results |-> w.results, msg |-> "", run |-> w],
             [sig |-> "error", results |-> <<>>, msg |-> "", run |-> w] >>
    /\ workers' = [workers EXCEPT ![k] = Done]
    /\ UNCHANGED <<uvars, gvars, wvars>>

\* line 449: self.finished.emit(results), queued to the main thread
EmitFinished(k) ==
    LET w == workers[k] IN
    /\ w.pc = "loop" /\ w.i > Len(w.titles)
    /\ events' = Append(events, [sig |-> "finished", results |-> w.results, msg |-> "", run |-> w])
    /\ workers' = [workers EXCEPT ![k] = Done]
    /\ UNCHANGED <<uvars, gvars, wvars>>

(***************************************************************************)
(* MainWindow.                                                             *)
(***************************************************************************)
\* str.split(',')
RECURSIVE SplitCommaFrom(_, _)
SplitCommaFrom(s, cur) ==
    IF s = <<>> THEN <<cur>>
    ELSE IF Head(s) = "," THEN <<cur>> \o SplitCommaFrom(Tail(s), <<>>)
    ELSE SplitCommaFrom(Tail(s), Append(cur, Head(s)))

\* update_quick_filters: [t.strip() for t in query_string.split(',')]
TitlesList(query_string) ==
    LET parts == SplitCommaFrom(query_string, <<>>) IN
    [j \in DOMAIN parts |-> Strip(parts[j])]

\* the quick filter data, cut down to one filter of two titles per mode
TOP_MOVIES == << <<"A", ",", " ", "B", " ", "C">> >>
TOP_SHOWS == << <<"B", " ", "C", ",", " ", "A">> >>

SearchType(show) == IF show THEN "TV show" ELSE "movie"

\* f"Pre-defined {len(pre_defined_titles)} {search_type}s"
FilterQueryText(titles, search_type) ==
    <<"Pre-defined ">> \o Str(Len(titles)) \o <<" ", search_type, "s">>

\* what the user types into the search field, and into the key fields
SearchInputs == { <<" ">>, <<"q", " ">> }
KeyInputs == { <<" ">>, <<"k", " ">> }

\* workers whose signal the window has not handled yet
InFlight == Cardinality(Running) + Len(events)

\* ops counts what the user did that started no fetch
CanAct == Len(workers) + ops < MaxOps

CanFetch == CanAct /\ InFlight < MaxInFlight

\* start_search, once past its two early returns
StartSearch(text, search_type, titles) ==
    /\ search_active' = TRUE
    /\ last_query' = text
    /\ last_search_type' = search_type
    /\ heap' = Append(heap, <<>>)
    /\ more_button' = FALSE
    /\ cards' = <<>>
    /\ workers' = Append(workers,
                         NewWorker(text, search_type, titles, <<>>, Len(heap) + 1, "start_search"))
    /\ UNCHANGED <<uvars, gvars, api_keys_ok, is_show, settings, ops, events>>

\* lines 1210-1216: the early returns of start_search; only the status line
\* is set
RejectSearch ==
    /\ ops' = ops + 1
    /\ UNCHANGED <<uvars, gvars, api_keys_ok, search_active, is_show, last_query,
                   last_search_type, more_button, cards, settings, heap, workers, events>>

\* a slip: start_search does not look at the text
OnSearchWithoutTextTest(input) ==
    /\ CanFetch
    /\ IF api_keys_ok
       THEN StartSearch(Strip(input), SearchType(is_show), <<>>)
       ELSE RejectSearch

\* on_search
OnSearch(input) ==
    /\ CanFetch
    /\ IF api_keys_ok /\ Strip(input) # <<>>
       THEN StartSearch(Strip(input), SearchType(is_show), <<>>)
       ELSE RejectSearch

\* on_filter_search, from a quick filter button: shown on the start page,
\* enabled while api_keys_ok
OnFilterSearch(f) ==
    LET filters == IF is_show THEN TOP_SHOWS ELSE TOP_MOVIES
        titles == TitlesList(filters[f])
        search_type == SearchType(is_show)
    IN
    /\ CanFetch
    /\ ~search_active /\ api_keys_ok
    /\ f \in DOMAIN filters
    /\ StartSearch(FilterQueryText(titles, search_type), search_type, titles)

\* on_generate_more, from the button while it is visible
OnGenerateMore ==
    /\ CanFetch
    /\ more_button
    /\ IF api_keys_ok
       THEN /\ more_button' = FALSE
            /\ cards' = <<>>
            /\ workers' = Append(workers,
                    NewWorker(last_query, last_search_type, <<>>, CurrentList, Len(heap),
                              "on_generate_more"))
            /\ UNCHANGED <<uvars, gvars, api_keys_ok, search_active, is_show, last_query,
                           last_search_type, settings, ops, heap, events>>
       ELSE UNCHANGED vars

\* a slip: the ids of the page are not put on the list
IdsOfNothing(results) == <<>>

\* the ids on_results_ready appends to excluded_ids
RECURSIVE IdsOf(_)
IdsOf(results) ==
    IF results = <<>> THEN <<>>
    ELSE (IF Head(results).imdb_id # <<>> THEN <<Head(results).imdb_id>> ELSE <<>>)
            \o IdsOf(Tail(results))

\* on_results_ready, for the finished signal at the head of the queue
OnResultsReady ==
    /\ events # <<>> /\ Head(events).sig = "finished"
    /\ events' = Tail(events)
    /\ LET results == Head(events).results IN
       IF results = <<>>
       THEN /\ more_button' = FALSE
            /\ UNCHANGED <<heap, cards>>
       ELSE /\ heap' = [heap EXCEPT ![Len(heap)] = @ \o IdsOf(results)]
            /\ cards' = cards \o results
            /\ more_button' = TRUE
    /\ UNCHANGED <<uvars, gvars, api_keys_ok, search_active, is_show, last_query,
                   last_search_type, settings, ops, workers>>

\* on_network_error, for the error signal at the head of the queue
OnNetworkError ==
    /\ events # <<>> /\ Head(events).sig = "error"
    /\ events' = Tail(events)
    /\ more_button' = FALSE
    /\ UNCHANGED <<uvars, gvars, api_keys_ok, search_active, is_show, last_query,
                   last_search_type, cards, settings, ops, heap, workers>>

\* animate_search_down, from the back button of the results page
AnimateSearchDown ==
    /\ CanAct
    /\ search_active
    /\ ops' = ops + 1
    /\ search_active' = FALSE
    /\ cards' = <<>>
    /\ more_button' = FALSE
    /\ api_keys_ok' = CheckApiKeys(GEMINI_API_KEY, OMDB_API_KEY)
    /\ UNCHANGED <<uvars, gvars, is_show, last_query, last_search_type, settings, heap,
                   workers, events>>

\* SizePulsingSelectorButton._toggle_mode; the button is enabled while api_keys_ok
OnToggle ==
    /\ CanAct
    /\ api_keys_ok
    /\ is_show' = ~is_show
    /\ ops' = ops + 1
    /\ UNCHANGED <<uvars, gvars, api_keys_ok, search_active, last_query, last_search_type,
                   more_button, cards, settings, heap, workers, events>>

\* open_settings
OpenSettings ==
    /\ CanAct
    /\ settings = "closed"
    /\ settings' = "open"
    /\ ops' = ops + 1
    /\ UNCHANGED <<uvars, gvars, api_keys_ok, search_active, is_show, last_query,
                   last_search_type, more_button, cards, heap, workers, events>>

\* SettingsPanel.save_keys: both keys are written and loaded again, the
\* configuration is written and loaded again, and the panel starts to close
SaveKeys(gemini_input, omdb_input, count_input) ==
    /\ settings = "open"
    /\ IF ~GLOBAL_CWD
       THEN \* _save_key_content raises, the message box is shown
            UNCHANGED <<gvars, settings, gemini_file, omdb_file, config_file>>
       ELSE /\ gemini_file' = Strip(gemini_input)
            /\ omdb_file' = Strip(omdb_input)
            /\ GEMINI_API_KEY' = SavedKey(gemini_input)
            /\ OMDB_API_KEY' = SavedKey(omdb_input)
            /\ config_file' = SavedConfig(count_input)
            /\ GLOBAL_SUGGESTION_COUNT' =
                  LoadConfig(LoadConfig(GLOBAL_SUGGESTION_COUNT, config_file),
                             SavedConfig(count_input))
            /\ settings' = "closing"
    /\ UNCHANGED <<pvars, fvars, backend, GLOBAL_CWD, loaded, api_keys_ok, search_active, is_show,
                   last_query, last_search_type, more_button, cards, ops, heap, workers,
                   events>>

\* SettingsPanel.close_panel, from the cancel button
CancelSettings ==
    /\ settings = "open"
    /\ settings' = "closing"
    /\ UNCHANGED <<uvars, gvars, api_keys_ok, search_active, is_show, last_query,
                   last_search_type, more_button, cards, ops, heap, workers, events>>

\* _hide_settings_overlay, when the fade-out has finished
HideSettingsOverlay ==
    /\ settings = "closing"
    /\ settings' = "closed"
    /\ api_keys_ok' = CheckApiKeys(GEMINI_API_KEY, OMDB_API_KEY)
    /\ UNCHANGED <<uvars, gvars, search_active, is_show, last_query, last_search_type,
                   more_button, cards, ops, heap, workers, events>>

(***************************************************************************)
(* The application.                                                        *)
(***************************************************************************)
ParserIdle ==
    raw = <<>> /\ pcount = 1 /\ parsed = [done |-> FALSE] /\ plines = <<>>

\* the key files and config.json found at start-up
KeyFiles == { NoFile, <<"k", LF>> }
ConfigFiles == { [exists |-> FALSE, kind |-> "absent", suggestion_count |-> 0] }

\* the module is loaded (_setup_cwd_and_load_keys) and the window constructed
Init ==
    /\ ParserIdle /\ FetchIdle
    /\ GLOBAL_CWD = TRUE /\ loaded = TRUE
    /\ gemini_file \in KeyFiles /\ omdb_file \in KeyFiles /\ config_file \in ConfigFiles
    /\ GEMINI_API_KEY = LoadKey(gemini_file)
    /\ OMDB_API_KEY = LoadKey(omdb_file)
    /\ GLOBAL_SUGGESTION_COUNT = LoadConfig(DefaultSuggestionCount, config_file)
    /\ api_keys_ok = CheckApiKeys(GEMINI_API_KEY, OMDB_API_KEY)
    /\ search_active = FALSE /\ is_show = FALSE
    /\ last_query = <<>> /\ last_search_type = "movie"
    /\ more_button = FALSE /\ cards = <<>> /\ settings = "closed" /\ ops = 0
    /\ heap = << <<>> >> /\ workers = <<>> /\ events = <<>>

\* the worker threads, one step of one of them at a time
WorkerBegins == \E k \in DOMAIN workers : RunBegin(k)
WorkerCallsGemini == \E k \in DOMAIN workers, resp \in GeminiResponses : GeminiCall(k, resp)
WorkerResolvesTitle == \E k \in DOMAIN workers, resp \in OmdbResponses : ResolveTitle(k, resp)
WorkerEmitsFinished == \E k \in DOMAIN workers : EmitFinished(k)

Next ==
    \/ \E input \in SearchInputs : OnSearch(input)
    \/ \E f \in 1..1 : OnFilterSearch(f)
    \/ OnGenerateMore
    \/ OnResultsReady
    \/ OnNetworkError
    \/ AnimateSearchDown
    \/ OnToggle
    \/ OpenSettings
    \/ \E g \in KeyInputs, o \in KeyInputs, c \in 1..MaxCount : SaveKeys(g, o, c)
    \/ CancelSettings
    \/ HideSettingsOverlay
    \/ WorkerBegins
    \/ WorkerCallsGemini
    \/ WorkerResolvesTitle
    \/ WorkerEmitsFinished

Spec == Init /\ [][Next]_vars

(***************************************************************************)
(* fetch_imdb_info on its own: any title, with and without the OMDb key,   *)
(* against every answer of the backend.                                    *)
(***************************************************************************)
\* longest title handed to fetch_imdb_info
MaxTitleLen == 3

FetchTitles == UNION { [1..n -> {"A", " "}] : n \in 1..MaxTitleLen }

InitFetch ==
    /\ ParserIdle /\ FilesIdle
    /\ GEMINI_API_KEY = <<"k">> /\ OMDB_API_KEY \in {MISSING_API_KEY, <<"k">>}
    /\ GLOBAL_SUGGESTION_COUNT = DefaultSuggestionCount
    /\ api_keys_ok = CheckApiKeys(GEMINI_API_KEY, OMDB_API_KEY)
    /\ search_active = FALSE /\ is_show = FALSE
    /\ last_query = <<>> /\ last_search_type = "movie"
    /\ more_button = FALSE /\ cards = <<>> /\ settings = "closed" /\ ops = 0
    /\ heap = << <<>> >> /\ workers = <<>> /\ events = <<>>
    /\ ftitle \in FetchTitles /\ fresp \in OmdbResponses
    /\ fetched = [done |-> FALSE]
    /\ backend = <<>>

\* info = fetch_imdb_info(t)
FetchInfo ==
    /\ ~fetched.done
    /\ fetched' = [done |-> TRUE] @@ FetchImdbInfo(ftitle, OMDB_API_KEY, fresp)
    /\ UNCHANGED <<pvars, ftitle, fresp, lvars, backend, svars>>

NextFetch == FetchInfo

SpecFetch == InitFetch /\ [][NextFetch]_vars

\* the title with every space taken out
WithoutSpaces(t) == SelectSeq(t, LAMBDA c : c # " ")

\* C11: without the OMDb key fetch_imdb_info returns, for every title and
\* whatever the backend would answer, a record (never None, never an
\* exception) whose id is the title without its spaces, with the marker genre
\* and plot and no cover, and it sends no request.
C11_NoKeyGivesDegradedRecord ==
    (fetched.done /\ OMDB_API_KEY = MISSING_API_KEY) =>
        /\ fetched.ret = "info" /\ ~fetched.sent
        /\ fetched.info.title = ftitle
        /\ fetched.info.imdb_id = WithoutSpaces(ftitle)
        /\ fetched.info.genres = GenresKeyMissing
        /\ fetched.info.plot = PlotKeyMissing
        /\ fetched.info.cover_url = "None"

\* a title with a space inside, and a backend that would have failed
C11_Witness ==
    /\ fetched.done /\ OMDB_API_KEY = MISSING_API_KEY
    /\ ftitle = <<"A", " ", "A">> /\ fresp.kind = "timeout"
    /\ fetched.info.imdb_id = <<"A", "A">>

(***************************************************************************)
(* The start-up of the module and the settings panel on their own, over    *)
(* every kind of key file and of config.json.                              *)
(***************************************************************************)
\* largest suggestion_count found in a config.json, and the smallest negated
MaxStoredCount == 21

AnyKeyFiles ==
    { NoFile, Unreadable, <<>>, <<" ", LF>>, <<"k", LF>>, <<NBSP, "k", " ", "j", LF>> }

AnyConfigFiles ==
    { [exists |-> FALSE, kind |-> "absent", suggestion_count |-> 0] }
    \cup { [exists |-> TRUE, kind |-> k, suggestion_count |-> 0] :
                k \in {"invalid", "missing", "text"} }
    \cup { [exists |-> TRUE, kind |-> "number", suggestion_count |-> n] :
                n \in (0 - MaxStoredCount)..MaxStoredCount }

\* what the count_input can hold: setRange(1, 20)
CountInputs == { MinSuggestionCount, DefaultSuggestionCount, MaxSuggestionCount }

\* the module as Python has just defined its globals (lines 30-39), in a
\* directory with any files; no window yet
InitLoad ==
    /\ ParserIdle /\ FetchIdle
    /\ GLOBAL_CWD = FALSE /\ loaded = FALSE
    /\ gemini_file \in AnyKeyFiles /\ omdb_file \in AnyKeyFiles
    /\ config_file \in AnyConfigFiles
    /\ GEMINI_API_KEY = MISSING_API_KEY /\ OMDB_API_KEY = MISSING_API_KEY
    /\ GLOBAL_SUGGESTION_COUNT = DefaultSuggestionCount
    /\ api_keys_ok = FALSE /\ search_active = FALSE /\ is_show = FALSE
    /\ last_query = <<>> /\ last_search_type = "movie"
    /\ more_button = FALSE /\ cards = <<>> /\ settings = "closed" /\ ops = 0
    /\ heap = << <<>> >> /\ workers = <<>> /\ events = <<>>

\* _setup_cwd_and_load_keys() of line 158, then MainWindow() with its
\* _check_api_keys; chdir_ok tells whether the directory could be established
\* (without it the function returns before it loads anything)
SetupCwdAndLoadKeys(chdir_ok) ==
    /\ ~loaded
    /\ loaded' = TRUE
    /\ IF chdir_ok
       THEN /\ GLOBAL_CWD' = TRUE
            /\ GLOBAL_SUGGESTION_COUNT' = LoadConfig(GLOBAL_SUGGESTION_COUNT, config_file)
            /\ GEMINI_API_KEY' = LoadKey(gemini_file)
            /\ OMDB_API_KEY' = LoadKey(omdb_file)
       ELSE UNCHANGED <<GLOBAL_CWD, gvars>>
    /\ api_keys_ok' = CheckApiKeys(GEMINI_API_KEY', OMDB_API_KEY')
    /\ UNCHANGED <<pvars, fvars, backend, gemini_file, omdb_file, config_file, search_active,
                   is_show, last_query, last_search_type, more_button, cards, settings,
                   ops, heap, workers, events>>

NextLoad ==
    \/ \E chdir_ok \in BOOLEAN : SetupCwdAndLoadKeys(chdir_ok)
    \/ loaded /\ OpenSettings
    \/ loaded /\ \E g \in KeyInputs, o \in KeyInputs, c \in CountInputs : SaveKeys(g, o, c)
    \/ loaded /\ CancelSettings
    \/ loaded /\ HideSettingsOverlay

SpecLoad == InitLoad /\ [][NextLoad]_vars

\* C17: the suggestion count is 10 until a config.json with a number says
\* otherwise, and is between 1 and 20 in every state: a stored number is cut
\* to that range, a config.json that is absent, is no JSON, or has no count or
\* one that is no number leaves the 10.
C17_CountWithinRange ==
    /\ GLOBAL_SUGGESTION_COUNT \in 1..20
    /\ ~loaded => GLOBAL_SUGGESTION_COUNT = 10
    /\ config_file.kind # "number" => GLOBAL_SUGGESTION_COUNT = 10
    /\ (loaded /\ GLOBAL_CWD /\ config_file.kind = "number") =>
          GLOBAL_SUGGESTION_COUNT =
              IF config_file.suggestion_count < 1 THEN 1
              ELSE IF config_file.suggestion_count > 20 THEN 20
              ELSE config_file.suggestion_count

\* a config.json with a count above the range has been loaded
C17_Witness ==
    /\ loaded /\ GLOBAL_CWD
    /\ config_file.kind = "number" /\ config_file.suggestion_count > 20
    /\ GLOBAL_SUGGESTION_COUNT = 20

\* the key file holds nothing but whitespace
Blank(file) == \A i \in DOMAIN file : file[i] \in {" ", NBSP, LF}

\* key is what is left of file when the whitespace at its ends is taken off
TrimmedOf(key, file) ==
    /\ key # <<>> /\ ~Blank(<<key[1]>>) /\ ~Blank(<<key[Len(key)]>>)
    /\ \E a \in 0..Len(file) :
          /\ a + Len(key) <= Len(file)
          /\ SubSeq(file, a + 1, a + Len(key)) = key
          /\ Blank(SubSeq(file, 1, a))
          /\ Blank(SubSeq(file, a + Len(key) + 1, Len(file)))

\* the key file gives no key: there is no working directory to read it from,
\* it does not exist, it cannot be read, or it is empty or blank
GivesNoKey(file) == ~GLOBAL_CWD \/ file \in {NoFile, Unreadable} \/ Blank(file)

\* C19: once the module is loaded each key is the missing marker exactly when
\* its key file gives no key, and else is the non-empty content of the file
\* without the whitespace at its ends; it is never the empty string.
C19_KeyPresentOrMissing ==
    loaded =>
        /\ GEMINI_API_KEY # <<>> /\ OMDB_API_KEY # <<>>
        /\ GEMINI_API_KEY = MISSING_API_KEY <=> GivesNoKey(gemini_file)
        /\ OMDB_API_KEY = MISSING_API_KEY <=> GivesNoKey(omdb_file)
        /\ ~GivesNoKey(gemini_file) => TrimmedOf(GEMINI_API_KEY, gemini_file)
        /\ ~GivesNoKey(omdb_file) => TrimmedOf(OMDB_API_KEY, omdb_file)

\* a blank key file next to one with whitespace around its key
C19_Witness ==
    /\ loaded /\ GLOBAL_CWD
    /\ gemini_file = <<" ", LF>> /\ GEMINI_API_KEY = MISSING_API_KEY
    /\ omdb_file = <<NBSP, "k", " ", "j", LF>> /\ OMDB_API_KEY = <<"k", " ", "j">>

(***************************************************************************)
(* C1 - C8: what a run of NetworkWorker.run emits.  A run is read off the  *)
(* signal it queued: e.results is the emitted list and e.run the worker as *)
(* it was when it emitted.                                                 *)
(***************************************************************************)
Emitted == Range(events)

Finished == { e \in Emitted : e.sig = "finished" }

Failed == { e \in Emitted : e.sig = "error" }

PageIds(e) == { e.results[j].imdb_id : j \in DOMAIN e.results }

\* C1: no record of an emitted result list has an imdb_id that is in the
\* exclusion list the run was given.
C1_ResultsAvoidExclusions ==
    \A e \in Finished : PageIds(e) \cap Range(e.run.started) = {}

\* a run without the OMDb key, where the id of a record is its title without
\* spaces: a title was left out, which only an excluded id can cause
C1_Witness ==
    \E e \in Finished :
        /\ e.run.started # <<>>
        /\ e.run.omdb_requests = 0
        /\ Len(e.results) < Len(e.run.titles)

\* C2: the ids of one emitted page are pairwise distinct.
C2_PageIdsDistinct ==
    \A e \in Finished :
        \A i, j \in DOMAIN e.results :
            i # j => e.results[i].imdb_id # e.results[j].imdb_id

\* C3: a page of on_generate_more, when on_results_ready shows it in the search
\* it was asked for, has no id of a page shown earlier in that search (those
\* are the ids of the window's excluded_ids).
C3_MorePagesAreNew ==
    (/\ events # <<>>
     /\ Head(events).sig = "finished"
     /\ Head(events).run.handler = "on_generate_more"
     /\ Head(events).run.session = Len(heap))
        => PageIds(Head(events)) \cap Range(CurrentList) = {}

\* C4: the records of an emitted page are in the order of their titles in the
\* candidate list, each record being the one of its title.
C4_OrderOfCandidatesKept ==
    \A e \in Finished :
        /\ \A j \in DOMAIN e.results :
              /\ e.results[j].src \in DOMAIN e.run.titles
              /\ e.results[j].title = e.run.titles[e.results[j].src]
        /\ \A i, j \in DOMAIN e.results : i < j => e.results[i].src < e.results[j].src

C4_Witness ==
    \E e \in Finished :
        /\ Len(e.results) = 2
        /\ e.results[1].title # e.results[2].title

\* the suggestion count a run is held to: the one generate_recommendations
\* read, or for pre-supplied titles the one in force when the fetch was asked
MaxResults(w) == IF w.pre_defined_titles # <<>> THEN w.max_results ELSE w.count

\* C5: resolver calls and returned records of a fetch are each at most the
\* suggestion count, with generated and with pre-supplied titles.
C5_PageBoundedByCount ==
    \A e \in Finished :
        /\ e.run.i - 1 <= MaxResults(e.run)
        /\ Len(e.results) <= MaxResults(e.run)

\* C6: a worker that reaches generate_recommendations or
\* direct_gemini_api_call while no Gemini key is configured emits the error
\* signal with the credential message, and has sent no request.
C6_NoCredentialNoRequest ==
    [][\A k \in DOMAIN workers :
          (/\ GEMINI_API_KEY = MISSING_API_KEY
           /\ \/ workers[k].pc = "begin" /\ workers[k].pre_defined_titles = <<>>
              \/ workers[k].pc = "gemini"
           /\ workers'[k] # workers[k])
            => /\ workers'[k] = Done
               /\ Len(events') = Len(events) + 1
               /\ LET e == events'[Len(events')] IN
                    /\ e.sig = "error"
                    /\ e.msg \in {ErrKeyMissing, ErrKeyNotConfigured}
                    /\ e.run.gemini_requests = 0 /\ e.run.omdb_requests = 0]_vars

C6_Witness ==
    \E e \in Failed : e.msg = ErrKeyMissing /\ e.run.handler = "start_search"

\* the message a generator failure is raised with
GeneratorError(came) ==
    CASE came = "credential" -> {ErrKeyMissing, ErrKeyNotConfigured}
      [] came = "text" -> {ErrEmptyResult}
      [] OTHER -> {came}

\* C7: a generator failure fails the whole page: the run emits the error signal
\* with that failure, no result list, and has called the resolver for no title;
\* a run that emits finished had its titles pre-supplied or parsed from a text.
C7_GeneratorFailureFailsPage ==
    \A e \in Emitted :
        /\ e.sig = "finished" =>
              \/ e.run.pre_defined_titles # <<>> /\ e.run.gen = "none"
              \/ e.run.gen = "text" /\ e.run.titles # <<>>
        /\ e.sig = "error" =>
              /\ e.run.gen # "none"
              /\ e.msg \in GeneratorError(e.run.gen)
              /\ e.results = <<>> /\ e.run.results = <<>>
              /\ e.run.i = 1 /\ e.run.omdb_requests = 0

C7_Witness ==
    /\ \E e \in Failed : e.run.gen = "timeout"
    /\ \E e \in Failed : e.run.gen = "text"

\* C8: a resolver request that fails or finds nothing raises nothing: no run
\* emits the error signal from its loop, a run that lost a title goes on, and
\* a finished run has gone through every candidate.
C8_ResolverFailureContained ==
    /\ \A e \in Failed : e.run.pc # "loop" /\ ~e.run.lost
    /\ \A e \in Finished : e.run.i = Len(e.run.titles) + 1
    /\ \A k \in Running : workers[k].lost => workers[k].pc = "loop"

\* the first title was lost, the second one is on the page
C8_Witness ==
    \E e \in Finished :
        /\ e.run.lost
        /\ Len(e.run.titles) = 2
        /\ Len(e.results) = 1 /\ e.results[1].src = 2

(***************************************************************************)
(* C12 - C16: the fetch and its caller.                                    *)
(***************************************************************************)
\* the runs under way and the runs that have emitted
Runs == { workers[k] : k \in Running } \cup { e.run : e \in Emitted }

\* C12: a fetch with pre-supplied titles never calls the generator (no Gemini
\* request, no look at the Gemini key, no generator error): it takes the
\* pre-supplied titles as its candidates, calls the resolver for each of them
\* and emits the records that have an id outside the exclusion list.
C12_PreSuppliedSkipsGenerator ==
    /\ \A w \in Runs : w.pre_defined_titles # <<>> =>
          /\ w.gen = "none" /\ w.gemini_requests = 0
          /\ w.pc \in {"begin", "loop"}
          /\ w.pc = "loop" => w.titles = w.pre_defined_titles
    /\ \A e \in Emitted : e.run.pre_defined_titles # <<>> =>
          /\ e.sig = "finished"
          /\ e.run.i = Len(e.run.pre_defined_titles) + 1
          /\ \A j \in DOMAIN e.results :
                /\ e.results[j].title = e.run.pre_defined_titles[e.results[j].src]
                /\ e.results[j].imdb_id # <<>>
                /\ e.results[j].imdb_id \notin Range(e.run.started)

\* a quick filter whose page is there although the Gemini key is gone, a
\* title having been dropped by the resolver
C12_Witness ==
    /\ GEMINI_API_KEY = MISSING_API_KEY
    /\ workers # <<>> /\ workers[1] = Done
    /\ events # <<>>
    /\ Head(events).sig = "finished"
    /\ Head(events).run.pre_defined_titles # <<>>
    /\ Len(Head(events).results) = 1 /\ Head(events).run.lost

\* C13: the signal of a fetch that a later start_search has superseded is
\* dropped when it is handled: it shows no card in the current search and adds
\* no id to the current excluded_ids.
C13_StaleResultsDiscarded ==
    [][(/\ events # <<>>
        /\ events' = Tail(events)
        /\ Head(events).run.session # Len(heap))
          => (cards' = cards /\ heap' = heap)]_vars

\* C14: no step of a worker (run, generate_recommendations, fetch_imdb_info)
\* changes an excluded_ids list, the window's or the worker's own; a run that
\* was given no ids ends with its own list still empty; a list changes only
\* in start_search (a new one) and in on_results_ready.
C14_PipelineLeavesListAlone ==
    [][/\ \A k \in DOMAIN workers : workers'[k] # workers[k] =>
            /\ heap' = heap
            /\ workers'[k] # Done =>
                  /\ workers'[k].excl_ref = workers[k].excl_ref
                  /\ workers'[k].excl_own = workers[k].excl_own
       /\ Len(events') > Len(events) =>
            LET e == events'[Len(events')] IN
            /\ e.run.excl_ref = 0 => (e.run.started = <<>> /\ e.run.excl_own = <<>>)
            /\ e.run.excl_ref # 0 => heap'[e.run.excl_ref] = heap[e.run.excl_ref]
       /\ heap' # heap =>
            \/ Len(workers') = Len(workers) + 1 /\ heap' = Append(heap, <<>>)
            \/ events # <<>> /\ Head(events).sig = "finished" /\ events' = Tail(events)]_vars

\* a run that was handed the window's list, kept a record and emitted, the
\* list being what it was when it was handed over
C14_Witness ==
    \E e \in Finished :
        /\ e.run.excl_ref # 0
        /\ e.results # <<>>
        /\ heap[e.run.excl_ref] = e.run.started

\* C15: between one start_search and the next the window's excluded_ids only
\* grows at its end, whatever is done (results, errors, generate more, back,
\* settings); a new list comes only with start_search, and is empty; once
\* on_results_ready has run, the id of every card shown is on the list.
C15_ListGrowsWithinSession ==
    [][/\ Len(heap') = Len(heap) =>
            /\ Len(CurrentList') >= Len(CurrentList)
            /\ SubSeq(CurrentList', 1, Len(CurrentList)) = CurrentList
       /\ Len(heap') # Len(heap) =>
            /\ heap' = Append(heap, <<>>)
            /\ Len(workers') = Len(workers) + 1
            /\ workers'[Len(workers')].handler = "start_search"
       /\ (events # <<>> /\ Head(events).sig = "finished" /\ events' = Tail(events)) =>
            \A j \in DOMAIN cards' : cards'[j].imdb_id \in Range(CurrentList')]_vars

\* the second page of a search is shown: its card, and the ids of both pages
C15_Witness ==
    /\ Len(heap) = 2
    /\ Len(cards) = 1 /\ Len(CurrentList) = 2
    /\ cards[1].imdb_id = CurrentList[2]
    /\ workers = <<Done, Done>> /\ events = <<>>

\* C16: a fetch sends at most one request to Gemini, and to OMDb at most one
\* request for each candidate it has gone through; a request that failed or
\* timed out is not sent again: a run about to call Gemini has sent nothing
\* yet, and the run that lost its Gemini request has sent exactly that one.
C16_OneRequestEach ==
    /\ \A w \in Runs :
          /\ w.gemini_requests <= 1
          /\ w.omdb_requests <= w.i - 1
          /\ w.i - 1 <= Len(w.titles)
    /\ \A k \in Running : workers[k].pc = "gemini" => workers[k].gemini_requests = 0
    /\ \A e \in Failed :
          e.run.gen \in {"timeout", "transport"} => e.run.gemini_requests = 1

\* a page after one Gemini request and two OMDb requests, one of them lost
C16_Witness ==
    \E e \in Finished :
        /\ e.run.gemini_requests = 1
        /\ e.run.omdb_requests = 2 /\ Len(e.run.titles) = 2
        /\ e.run.lost /\ Len(e.results) = 1

(***************************************************************************)
(* C20: the marker of a line.                                              *)
(***************************************************************************)
\* C20: at most one marker is cut from a line, the first one it starts with,
\* be it a number or a bullet: what comes after it is kept as it is, even if
\* it starts like a marker again ('1. -A' gives '-A', '-1.A' gives '1.A').
C20_OnlyFirstMarkerStripped ==
    parsed.done =>
        /\ \A i \in DOMAIN plines :
              CleanTitle(Strip(RenderLine(plines[i])), pcount) = plines[i].body.clean
        /\ (plines # <<>> /\ plines[1].body.clean # <<>>) =>
              (parsed.ok /\ parsed.titles[1] = plines[1].body.clean)

\* a bullet after a number and a number after a bullet, both kept
C20_Witness ==
    /\ parsed.done /\ parsed.ok
    /\ Len(plines) = 2
    /\ plines[1].marker = <<"1", ".">> /\ plines[1].body.text = <<" ", "-", "A">>
    /\ plines[2].marker = <<"-">> /\ plines[2].body.text = <<"1", ".", "A">>
    /\ parsed.titles = << <<"-", "A">>, <<"1", ".", "A">> >>

(***************************************************************************)
(* Two fetches with the same arguments, against a backend that answers the *)
(* same request in the same way.  The two workers run side by side or one  *)
(* after the other; nothing else happens.                                  *)
(***************************************************************************)
\* the titles the fetches of this specification can ask OMDb about
RunTitles == { <<"A">>, <<"B", " ", "C">> }

Backends == [gemini : GeminiResponses, omdb : [RunTitles -> OmdbResponses]]

\* the excluded_ids handed to the two fetches
RunLists == { <<>>, << <<"x">> >>, << <<"A">> >> }

RunConfigFiles == ConfigFiles \cup { SavedConfig(MinSuggestionCount) }

InitRun ==
    /\ ParserIdle
    /\ ftitle = <<>> /\ fresp = [kind |-> "notfound", imdbID |-> <<>>]
    /\ fetched = [done |-> FALSE]
    /\ backend \in Backends
    /\ GLOBAL_CWD = TRUE /\ loaded = TRUE
    /\ gemini_file \in KeyFiles /\ omdb_file \in KeyFiles /\ config_file \in RunConfigFiles
    /\ GEMINI_API_KEY = LoadKey(gemini_file)
    /\ OMDB_API_KEY = LoadKey(omdb_file)
    /\ GLOBAL_SUGGESTION_COUNT = LoadConfig(DefaultSuggestionCount, config_file)
    /\ api_keys_ok = TRUE /\ search_active = TRUE /\ is_show = FALSE
    /\ last_query = <<"q">> /\ last_search_type = "movie"
    /\ more_button = FALSE /\ cards = <<>> /\ settings = "closed" /\ ops = 0
    /\ heap \in { <<l>> : l \in RunLists }
    /\ \E titles \in { <<>>, TitlesList(TOP_MOVIES[1]) } :
          LET w == NewWorker(<<"q">>, "movie", titles, heap[1], 1,
                             IF heap[1] = <<>> THEN "start_search" ELSE "on_generate_more")
          IN workers = <<w, w>>
    /\ events = <<>>

\* the answer of the backend to the request of worker k for its next title
OmdbAnswer(k) == backend.omdb[workers[k].titles[workers[k].i]]

NextRun ==
    \/ \E k \in DOMAIN workers : RunBegin(k)
    \/ \E k \in DOMAIN workers : GeminiCall(k, backend.gemini)
    \/ \E k \in DOMAIN workers :
          /\ workers[k].pc = "loop" /\ workers[k].i <= Len(workers[k].titles)
          /\ ResolveTitle(k, OmdbAnswer(k))
    \/ \E k \in DOMAIN workers : EmitFinished(k)

SpecRun == InitRun /\ [][NextRun]_vars

MaxMarker == 21

\* what follows the number and the dot, with its cleaned text
Rests ==
    { [text |-> <<"A">>,            clean |-> <<"A">>],
      [text |-> <<" ", "A">>,       clean |-> <<"A">>],
      [text |-> <<"1", ".", "A">>,  clean |-> <<"1", ".", "A">>] }

InitMarker ==
    /\ SystemIdle /\ FetchIdle /\ FilesIdle
    /\ pcount \in MinSuggestionCount..MaxSuggestionCount
    /\ \E k \in 0..MaxMarker, r \in Rests :
          plines = << [marker |-> <<>>, k |-> k,
                       body |-> [text |-> Str(k) \o <<".">> \o r.text, clean |-> r.clean]] >>
    /\ raw = RenderLines(plines)
    /\ parsed = [done |-> FALSE]

SpecMarker == InitMarker /\ [][NextParse]_vars

ResolvedId(t) ==
    IF OMDB_API_KEY = MISSING_API_KEY THEN WithoutSpaces(t)
    ELSE IF backend.omdb[t].kind = "found" THEN backend.omdb[t].imdbID
    ELSE <<>>

\* C22: the page of a fetch holds, in order, exactly the candidates whose
\* resolver result is there with a non-empty id that is not in excluded_ids,
\* each with that id; no other candidate is on it and none of these is left
\* out.
C22_LeftOutIffUnresolvedOrExcluded ==
    \A e \in Finished :
        LET ts == e.run.titles
            kept == { j \in DOMAIN ts :
                        ResolvedId(ts[j]) # <<>> /\ ResolvedId(ts[j]) \notin Range(heap[1]) }
        IN
        /\ { e.results[n].src : n \in DOMAIN e.results } = kept
        /\ Len(e.results) = Cardinality(kept)
        /\ \A n \in DOMAIN e.results :
              /\ e.results[n].imdb_id = ResolvedId(ts[e.results[n].src])
              /\ e.results[n].imdb_id # <<>>

\* of two candidates OMDb knows, one comes without an imdbID and is left out
C22_Witness ==
    \E e \in Finished :
        /\ OMDB_API_KEY # MISSING_API_KEY
        /\ Len(e.run.titles) = 2
        /\ backend.omdb[e.run.titles[1]] = [kind |-> "found", imdbID |-> <<>>]
        /\ backend.omdb[e.run.titles[2]].kind = "found"
        /\ Len(e.results) = 1 /\ e.results[1].src = 2

(***************************************************************************)
(* generate_recommendations on its own, against every answer of Gemini the *)
(* model knows, envelopes without a text included.                         *)
(***************************************************************************)
AnyGeminiResponses ==
    GeminiResponses
    \cup { [kind |-> k, text |-> <<>>] : k \in {"empty", "nocandidates", "nullcandidates"} }

InitGenerate ==
    /\ FilesIdle
    /\ ftitle = <<>> /\ fresp = [kind |-> "notfound", imdbID |-> <<>>]
    /\ fetched = [done |-> FALSE]
    /\ backend \in [gemini : AnyGeminiResponses, omdb : { <<>> }]
    /\ GEMINI_API_KEY \in {MISSING_API_KEY, <<"k">>} /\ OMDB_API_KEY = <<"k">>
    /\ GLOBAL_SUGGESTION_COUNT \in MinSuggestionCount..MaxSuggestionCount
    /\ api_keys_ok = CheckApiKeys(GEMINI_API_KEY, OMDB_API_KEY)
    /\ search_active = FALSE /\ is_show = FALSE
    /\ last_query = <<>> /\ last_search_type = "movie"
    /\ more_button = FALSE /\ cards = <<>> /\ settings = "closed" /\ ops = 0
    /\ heap = << <<>> >> /\ workers = <<>> /\ events = <<>>
    /\ pcount = GLOBAL_SUGGESTION_COUNT /\ plines = <<>>
    /\ raw = <<>> /\ parsed = [done |-> FALSE]

\* generate_recommendations: raw is what direct_gemini_api_call returned,
\* returned tells whether it returned at all
GenerateRecommendations ==
    LET call == DirectGeminiApiCall(GEMINI_API_KEY, backend.gemini) IN
    /\ ~parsed.done
    /\ IF GEMINI_API_KEY = MISSING_API_KEY
       THEN /\ raw' = raw
            /\ parsed' = [done |-> TRUE, returned |-> FALSE, ok |-> FALSE,
                           titles |-> <<>>, err |-> ErrKeyMissing]
       ELSE /\ raw' = call.text
            /\ parsed' = [done |-> TRUE, returned |-> call.ok]
                              @@ GenerateFromCall(call, GLOBAL_SUGGESTION_COUNT)
    /\ UNCHANGED <<pcount, plines, fvars, lvars, backend, svars>>

NextGenerate == GenerateRecommendations

SpecGenerate == InitGenerate /\ [][NextGenerate]_vars

\* the request was answered with a JSON envelope
Answered == backend.gemini.kind \notin {"timeout", "transport"}

\* C23: for every envelope Gemini answers with, direct_gemini_api_call
\* returns: the text of the first part of the first candidate when the
\* envelope has one, the JSON text of the whole envelope when it has not; and
\* the parser is given that text.
C23_TextOrSerializedEnvelope ==
    (parsed.done /\ GEMINI_API_KEY # MISSING_API_KEY /\ Answered) =>
        /\ parsed.returned
        /\ backend.gemini.kind = "text" => raw = backend.gemini.text
        /\ backend.gemini.kind # "text" =>
              /\ raw # <<>> /\ Head(raw) = "{" /\ raw[Len(raw)] = "}"
              /\ parsed.ok /\ parsed.titles = <<raw>>

(***************************************************************************)
(* C24: the two fetches again, each worker on a thread of its own that the *)
(* scheduler does not starve; every request is answered, fails or times    *)
(* out, as the backend of the specification has it.                        *)
(***************************************************************************)
\* lines 444-447: one turn of the loop of worker k over its titles
LoopStep(k) ==
    /\ workers[k].pc = "loop" /\ workers[k].i <= Len(workers[k].titles)
    /\ ResolveTitle(k, OmdbAnswer(k))

\* The thread of worker k is not starved: weak fairness of each of its steps.
\* For the Gemini request the condition is written out, the step being
\* enabled exactly while the worker waits for the answer (pc = "gemini"):
\* the request returns or times out (line 483, timeout=15).
SpecRunFair ==
    /\ InitRun /\ [][NextRun]_vars
    /\ \A k \in 1..2 :
          /\ WF_vars(RunBegin(k))
          /\ WF_vars(LoopStep(k))
          /\ WF_vars(EmitFinished(k))
          /\ \/ []<>(workers[k].pc # "gemini")
             \/ []<><<GeminiCall(k, backend.gemini)>>_vars

\* C24: every run that was started comes to its end and has then emitted one
\* signal, finished or error, and no run emits a second one: at all times
\* there are as many signals as runs that have ended.
C24_RunEmitsExactlyOnce ==
    /\ [](Len(events) = Cardinality({ k \in DOMAIN workers : workers[k] = Done }))
    /\ \A k \in 1..2 : <>(workers[k] = Done)

\* both runs have ended, on a Gemini request that timed out
C24_Witness ==
    /\ workers = <<Done, Done>> /\ Len(events) = 2
    /\ backend.gemini.kind = "timeout"
    /\ events[1].sig = "error" /\ events[2].sig = "error"

(***************************************************************************)
(* C25 to C28: the window and its workers, under Spec.                     *)
(***************************************************************************)
\* both credentials as they are configured now (the globals of lines 154-155)
KeysConfigured == GEMINI_API_KEY # MISSING_API_KEY /\ OMDB_API_KEY # MISSING_API_KEY

\* C25: a handler of the window starts a worker only while both credentials
\* are configured: no step adds a worker in a state where a key is missing.
C25_FetchOnlyWithBothKeys ==
    [][Len(workers') > Len(workers) => KeysConfigured]_vars

\* C26: the 'Generate More Picks' button is not visible while a fetch is in
\* flight, that is while a worker runs or its signal waits to be delivered.
C26_NoMoreButtonDuringFetch == more_button => InFlight = 0

\* the records of a page are all real or all degraded
Unmixed(results) ==
    \A i, j \in DOMAIN results : results[i].real = results[j].real

\* C27: no worker hands over a page that mixes real records with degraded
\* ones, whatever the settings panel saves while the worker is in its loop.
C27_PageNeverMixed ==
    \A n \in DOMAIN events : events[n].sig = "finished" => Unmixed(events[n].results)

(***************************************************************************)
(* C28: searches and their fetches alone, so that ops counts the calls of  *)
(* start_search that returned early.                                       *)
(***************************************************************************)
NextSearch ==
    \/ \E input \in SearchInputs : OnSearch(input)
    \/ \E f \in 1..1 : OnFilterSearch(f)
    \/ OnGenerateMore
    \/ OnResultsReady
    \/ OnNetworkError
    \/ WorkerBegins
    \/ WorkerCallsGemini
    \/ WorkerResolvesTitle
    \/ WorkerEmitsFinished

SpecSearch == Init /\ [][NextSearch]_vars

\* C28: start_search with an empty text and no pre-supplied titles starts no
\* worker and leaves excluded_ids, last_query, last_search_type, the cards
\* and the 'Generate More Picks' button as they were.
C28_EmptySearchChangesNothing ==
    [][\A input \in SearchInputs :
          (api_keys_ok /\ Strip(input) = <<>> /\ OnSearch(input))
             => UNCHANGED <<workers, events, heap, last_query, last_search_type,
                            cards, more_button, search_active>>]_vars

\* an empty search was turned down on a page of results with its button
C28_Witness ==
    /\ ops = 1 /\ api_keys_ok /\ InFlight = 0
    /\ cards # <<>> /\ more_button /\ CurrentList # <<>> /\ last_query # <<>>
====
